---- MODULE Spec2Model ----
(***************************************************************************)
(* Model of server/src/events/interaction.rs: the lantern toggle           *)
(* (handle_lantern), the mount relation (handle_mount, handle_unmount)     *)
(* and the possession transfer (handle_possess), over the component        *)
(* storages of the ECS world; and of server/src/persistence/character.rs:  *)
(* create_character and delete_character as concurrent calls on the        *)
(* character database.                                                     *)
(*                                                                         *)
(* A storage is a function from entity handle to a value, None standing    *)
(* for "no component".  A dead entity has no component in any storage,     *)
(* and an insert on it fails (specs: Error::WrongGeneration).              *)
(***************************************************************************)
EXTENDS Integers, FiniteSets, Sequences, TLC

\* ------------------------------------------------------------------ bounds

\* Number of entity handles of the world.
NumEntities == 3

\* Number of calls made on the character database.
NumCalls == 2

\* ------------------------------------------------------------- the world

None == 0

Entity == 1..NumEntities

\* The stable id (Uid) allocated to entity e; uids and handles are disjoint.
UidOf(e) == NumEntities + e

Uid == {UidOf(e) : e \in Entity}

MAX_MOUNT_RANGE == 14

\* Positions (Vec3): two points exactly MAX_MOUNT_RANGE apart, and a third
\* one within range of the second and beyond range of the first.
PosOrigin == <<0, 0, 0>>
PosBoundary == <<MAX_MOUNT_RANGE, 0, 0>>
PosBeyond == <<MAX_MOUNT_RANGE, 1, 0>>
NoPos == <<>>

Points == {PosOrigin, PosBoundary, PosBeyond}

\* comp::MountState, and the absence of the component.
NoMountState == [tag |-> "None", by |-> None]
Unmounted == [tag |-> "Unmounted", by |-> None]
MountedBy(u) == [tag |-> "MountedBy", by |-> u]

\* comp::ItemConfig in a loadout slot, and the empty slot.
ItemConfig(item, a1, a2, a3, block, dodge) ==
    [item |-> item, ability1 |-> a1, ability2 |-> a2, ability3 |-> a3,
     block_ability |-> block, dodge_ability |-> dodge]

\* Option::None in an ability slot.
NoAbility == "none"

NoItem == ItemConfig("none", NoAbility, NoAbility, NoAbility, NoAbility, NoAbility)

\* comp::Loadout (the slots this module touches), and its absence.
Loadout(active, second, lantern) ==
    [present |-> TRUE, active_item |-> active, second_item |-> second,
     lantern |-> lantern]

NoLoadout ==
    [present |-> FALSE, active_item |-> NoItem, second_item |-> NoItem,
     lantern |-> NoItem]

\* An item in the lantern slot: its kind, and the color and strength a
\* lantern has.
Item(kind, col, strength) == [kind |-> kind, col |-> col, strength |-> strength]

\* comp::LightEmitter, and its absence.
LightEmitter(col, strength, flicker, animated) ==
    [present |-> TRUE, col |-> col, strength |-> strength,
     flicker |-> flicker, animated |-> animated]

NoLight ==
    [present |-> FALSE, col |-> "none", strength |-> 0, flicker |-> "none",
     animated |-> FALSE]

\* comp::Loadout::default()
DefaultLoadout == Loadout(NoItem, NoItem, NoItem)

\* The storages handle_possess moves, in the order it moves them.
\* Mandatory with the in-game stream forgotten
Mandatory_without_in_game ==
    <<"Client", "GeneralStream", "PingStream", "RegisterStream",
      "CharacterScreenStream">>

Mandatory ==
    <<"Client", "GeneralStream", "PingStream", "RegisterStream",
      "CharacterScreenStream", "InGameStream">>

Optional == <<"Player", "RegionSubscription", "Admin", "Waypoint">>

Streams ==
    {"GeneralStream", "PingStream", "RegisterStream", "CharacterScreenStream",
     "InGameStream"}

Optionals == {"Player", "RegionSubscription", "Admin", "Waypoint"}

Kinds == {"Client"} \cup Streams \cup Optionals

\* The players, by uuid.
Players == {"alice", "bob"}

MAX_CHARACTERS_PER_PLAYER == 2

\* The calls made on the character database.
Call == 1..NumCalls

VARIABLES
    alive,       \* entity -> BOOLEAN: ecs.is_alive(entity)
    uid,         \* storage of Uid: entity -> uid or None
    uidMap,      \* UidAllocator mapping: uid -> entity or None
    pos,         \* storage of comp::Pos
    mounting,    \* storage of comp::Mounting: entity -> uid of the mount
    mountState,  \* storage of comp::MountState
    comps,       \* kind -> storage of Client, the streams and the optional
                 \* components; a value names the session it was created for
    loadouts,    \* storage of comp::Loadout
    agents,      \* storage of comp::Agent: entity -> BOOLEAN
    controllers, \* storage of comp::Controller: "none", "neutral", "input"
    lights,      \* storage of comp::LightEmitter
    lightOps,    \* inserts and removes on that storage by the last call
    possessItem, \* the asset common.items.debug.possess
    log,         \* error! entries of the last call
    sent,        \* messages sent on a general stream by the last call
    last,        \* the last call made: its name and arguments
    pre,         \* the store as it was before the last call
    sessions,    \* the session handles the connected clients were given
    db,          \* the committed rows of the character, body and stats tables;
                 \* by names the call that wrote a row (None: none of them)
    tx,          \* the open write transaction: its call and uncommitted rows
    calls        \* call -> its arguments, its position, what it has read
                 \* and written, and its result

store ==
    [alive |-> alive, uid |-> uid, uidMap |-> uidMap, pos |-> pos,
     mounting |-> mounting, mountState |-> mountState, comps |-> comps,
     loadouts |-> loadouts, agents |-> agents, controllers |-> controllers,
     lights |-> lights]

world == <<alive, uid, uidMap, pos, possessItem, sessions>>

mountVars == <<mounting, mountState>>

possessVars == <<comps, loadouts, agents, controllers>>

lanternVars == <<lights, lightOps>>

dbVars == <<db, tx, calls>>

ecsVars ==
    <<world, mountVars, possessVars, lanternVars, log, sent, last, pre>>

vars == <<ecsVars, dbVars>>

NoCall == [op |-> "none", a |-> None, b |-> None]

\* -------------------------------------------------------------- helpers

\* Vec3::distance_squared
distance_squared(p, q) ==
    (p[1] - q[1]) * (p[1] - q[1]) + (p[2] - q[2]) * (p[2] - q[2])
        + (p[3] - q[3]) * (p[3] - q[3])

\* within_mounting_range with the boundary let in
within_mounting_range_inclusive(player_position, mount_position) ==
    IF player_position # NoPos /\ mount_position # NoPos
    THEN distance_squared(player_position, mount_position)
            <= MAX_MOUNT_RANGE * MAX_MOUNT_RANGE
    ELSE FALSE

within_mounting_range(player_position, mount_position) ==
    IF player_position # NoPos /\ mount_position # NoPos
    THEN distance_squared(player_position, mount_position)
            < MAX_MOUNT_RANGE * MAX_MOUNT_RANGE
    ELSE FALSE

\* ecs.uid_from_entity(entity): the entity's Uid component, if any.
uid_from_entity(entity) == uid[entity]

\* ecs.entity_from_uid(uid): the allocator's mapping, which may still name
\* an entity that has been deleted since.
entity_from_uid(u) == IF u \in Uid THEN uidMap[u] ELSE None

\* state.write_component(entity, comp): an insert whose result is dropped;
\* specs refuses the insert on a dead entity.
write_component(storage, entity, comp) ==
    IF alive[entity] THEN [storage EXCEPT ![entity] = comp] ELSE storage

\* state.delete_component(entity): a remove.
delete_component(storage, entity, none) == [storage EXCEPT ![entity] = none]

\* ------------------------------------------------------------ operations

\* lantern_exists: a LightEmitter of strength above zero.
lantern_exists(entity) == lights[entity].present /\ lights[entity].strength > 0

\* lantern_opt taking whatever item is in the lantern slot
lantern_opt_any_item(entity) ==
    IF loadouts[entity].present /\ loadouts[entity].lantern # NoItem
    THEN loadouts[entity].lantern
    ELSE NoItem

\* lantern_opt: the item of the Lantern kind in the lantern slot of the
\* entity's Loadout, or none.
lantern_opt(entity) ==
    IF /\ loadouts[entity].present
       /\ loadouts[entity].lantern # NoItem
       /\ loadouts[entity].lantern.kind = "Lantern"
    THEN loadouts[entity].lantern
    ELSE NoItem

\* again: the call before this one was the same call.
handle_lantern(entity, enable) ==
    /\ last' = [op |-> "lantern", a |-> entity, b |-> enable,
                again |-> /\ last.op = "lantern"
                          /\ last.a = entity
                          /\ last.b = enable]
    /\ pre' = store
    /\ IF lantern_exists(entity) = enable
       THEN /\ lights' = lights
            /\ lightOps' = <<>>
       ELSE IF ~enable
       THEN /\ lights' = delete_component(lights, entity, NoLight)
            /\ lightOps' = <<[op |-> "remove", entity |-> entity]>>
       ELSE IF lantern_opt(entity) # NoItem
       THEN /\ lights' = write_component(lights, entity,
                             LightEmitter(lantern_opt(entity).col,
                                          lantern_opt(entity).strength,
                                          "0.35", TRUE))
            /\ lightOps' = <<[op |-> "insert", entity |-> entity]>>
       ELSE /\ lights' = lights
            /\ lightOps' = <<>>
    /\ log' = <<>>
    /\ sent' = <<>>
    /\ UNCHANGED <<dbVars, world, mountVars, possessVars>>

\* MountGuard without the check that the mountee is Unmounted
MountGuard_any_state(mounter, mountee) ==
    /\ mounting[mounter] = None
    /\ mountState[mountee] # NoMountState
    /\ within_mounting_range(pos[mounter], pos[mountee])
    /\ uid_from_entity(mounter) # None
    /\ uid_from_entity(mountee) # None

\* The conditions under which handle_mount writes the two components.
MountGuard(mounter, mountee) ==
    /\ mounting[mounter] = None
    /\ mountState[mountee] = Unmounted
    /\ within_mounting_range(pos[mounter], pos[mountee])
    /\ uid_from_entity(mounter) # None
    /\ uid_from_entity(mountee) # None

handle_mount(mounter, mountee) ==
    /\ last' = [op |-> "mount", a |-> mounter, b |-> mountee]
    /\ pre' = store
    /\ IF MountGuard(mounter, mountee)
       THEN /\ mountState' = write_component(mountState, mountee,
                                MountedBy(uid_from_entity(mounter)))
            /\ mounting' = write_component(mounting, mounter,
                                uid_from_entity(mountee))
       ELSE UNCHANGED <<mounting, mountState>>
    /\ log' = <<>>
    /\ sent' = <<>>
    /\ UNCHANGED <<dbVars, world, possessVars, lanternVars>>

UnmountMountee(mounter) ==
    IF mounting[mounter] # None THEN entity_from_uid(mounting[mounter]) ELSE None

\* UnmountedState that frees every mount
UnmountedState_every_mount(mountee_entity) ==
    [e \in Entity |->
        IF mountState[e] # NoMountState THEN Unmounted ELSE mountState[e]]

UnmountedState(mountee_entity) ==
    IF mountee_entity # None /\ alive[mountee_entity]
          /\ mountState[mountee_entity] # NoMountState
    THEN [mountState EXCEPT ![mountee_entity] = Unmounted]
    ELSE mountState

\* handle_unmount that removes Mounting only when the mountee was found
handle_unmount_when_found(mounter) ==
    /\ last' = [op |-> "unmount", a |-> mounter, b |-> None]
    /\ pre' = store
    /\ mountState' = UnmountedState(UnmountMountee(mounter))
    /\ mounting' = IF UnmountMountee(mounter) # None
                   THEN delete_component(mounting, mounter, None)
                   ELSE mounting
    /\ log' = <<>>
    /\ sent' = <<>>
    /\ UNCHANGED <<dbVars, world, possessVars, lanternVars>>

handle_unmount(mounter) ==
    /\ last' = [op |-> "unmount", a |-> mounter, b |-> None]
    /\ pre' = store
    /\ mountState' = UnmountedState(UnmountMountee(mounter))
    /\ mounting' = delete_component(mounting, mounter, None)
    /\ log' = <<>>
    /\ sent' = <<>>
    /\ UNCHANGED <<dbVars, world, possessVars, lanternVars>>


\* The entity checks of handle_possess: the handle's generation is a live
\* one (a handle the allocator stored always is) and the world knows it.
is_alive(entity) == alive[entity]

\* a read of the component in place of its removal
Removed_kept(c, kind, entity) == c

\* storage.remove(entity) of the component kind
Removed(c, kind, entity) == [c EXCEPT ![kind][entity] = None]

\* storage.insert(entity, v): refused on a dead entity, the value dropped;
\* a component the entity already has is replaced.
Inserted(c, kind, entity, v) ==
    IF alive[entity] THEN [c EXCEPT ![kind][entity] = v] ELSE c

\* The closure's mandatory part: remove from the possessor and insert on
\* the possesse, one storage after the other from the i-th on; the first
\* remove that finds nothing, or insert that is refused (.ok()?), ends the
\* closure with None and leaves what was moved so far where it is.
RECURSIVE MandatoryTransfer(_, _, _, _)
MandatoryTransfer(c, i, possessor, possesse) ==
    IF i > Len(Mandatory)
    THEN [comps |-> c, result |-> "ok"]
    ELSE LET kind == Mandatory[i]
             v == c[kind][possessor]
         IN  IF v = None
             THEN [comps |-> c, result |-> "none"]
             ELSE IF ~alive[possesse]
             THEN [comps |-> Removed(c, kind, possessor), result |-> "none"]
             ELSE MandatoryTransfer(
                      Inserted(Removed(c, kind, possessor), kind, possesse, v),
                      i + 1, possessor, possesse)

\* OptionalTransfer that stops at the first component the possessor lacks
RECURSIVE OptionalTransfer_until_absent(_, _, _, _)
OptionalTransfer_until_absent(c, i, possessor, possesse) ==
    IF i > Len(Optional) \/ c[Optional[i]][possessor] = None
    THEN c
    ELSE OptionalTransfer_until_absent(
             Inserted(Removed(c, Optional[i], possessor), Optional[i], possesse,
                      c[Optional[i]][possessor]),
             i + 1, possessor, possesse)

\* The closure's optional part: each component the possessor has is removed
\* and inserted on the possesse; nothing here ends the closure.
RECURSIVE OptionalTransfer(_, _, _, _)
OptionalTransfer(c, i, possessor, possesse) ==
    IF i > Len(Optional)
    THEN c
    ELSE LET kind == Optional[i]
             v == c[kind][possessor]
         IN  OptionalTransfer(
                 IF v = None
                 THEN c
                 ELSE Inserted(Removed(c, kind, possessor), kind, possesse, v),
                 i + 1, possessor, possesse)

\* ability_drain.next(), the i-th time
DrainedAbility(i) ==
    IF i <= Len(possessItem.abilities) THEN possessItem.abilities[i] ELSE NoAbility

DebugItem ==
    ItemConfig("common.items.debug.possess", DrainedAbility(1), DrainedAbility(2),
               DrainedAbility(3), NoAbility, NoAbility)

\* PossessLoadout with the tool written over the active item, no swap
PossessLoadout_overwrite(loadout) ==
    LET entry == IF loadout.present THEN loadout ELSE DefaultLoadout
    IN  IF possessItem.is_tool
        THEN [entry EXCEPT !.active_item = DebugItem]
        ELSE entry

\* The possesse's loadout after "Put possess item into loadout".
PossessLoadout(loadout) ==
    LET entry == IF loadout.present THEN loadout ELSE DefaultLoadout
    IN  IF possessItem.is_tool
        THEN [entry EXCEPT !.second_item = entry.active_item,
                           !.active_item = DebugItem]
        ELSE entry

\* PossesseIsPlayer with the check left out
PossesseIsPlayer_unchecked(possesse) == FALSE

\* The possesse must not be a player already.
PossesseIsPlayer(possesse) == comps["Client"][possesse] # None

\* ResetController that resets nothing
ResetController_skipped(possessor) == controllers

\* "Reset controller of former shell"
ResetController(possessor) ==
    IF alive[possessor] /\ controllers[possessor] # "none"
    THEN [controllers EXCEPT ![possessor] = "neutral"]
    ELSE controllers

\* SendSetPlayerEntity looking at the storages as they were before the closure
SendSetPlayerEntity_before_move(c, possesse, possesse_uid) ==
    IF comps["GeneralStream"][possesse] # None
    THEN <<[stream |-> comps["GeneralStream"][possesse], entity |-> possesse,
            msg |-> "SetPlayerEntity", uid |-> possesse_uid]>>
    ELSE <<>>

\* general_streams.get_mut(possesse).map(|s| s.send_fallible(..)): what is
\* sent, on the stream the possesse has in the storages c after the closure.
SendSetPlayerEntity(c, possesse, possesse_uid) ==
    IF c["GeneralStream"][possesse] # None
    THEN <<[stream |-> c["GeneralStream"][possesse], entity |-> possesse,
            msg |-> "SetPlayerEntity", uid |-> possesse_uid]>>
    ELSE <<>>

LogEntry(msg, entity) == [msg |-> msg, entity |-> entity]

handle_possess(possessor_uid, possesse_uid) ==
    LET possessor == entity_from_uid(possessor_uid)
        possesse == entity_from_uid(possesse_uid)
    IN
    /\ last' = [op |-> "possess", a |-> possessor_uid, b |-> possesse_uid]
    /\ pre' = store
    /\ IF possessor = None \/ possesse = None
       THEN /\ log' = <<>>
            /\ sent' = <<>>
            /\ UNCHANGED possessVars
       ELSE IF ~is_alive(possessor) \/ ~is_alive(possesse)
       THEN /\ log' = <<LogEntry("Error possessing! either the possessor entity or possesse entity no longer exists", None)>>
            /\ sent' = <<>>
            /\ UNCHANGED possessVars
       ELSE IF PossesseIsPlayer(possesse)
       THEN /\ log' = <<LogEntry("can't possess other players", None)>>
            /\ sent' = <<>>
            /\ UNCHANGED possessVars
       ELSE LET m == MandatoryTransfer(comps, 1, possessor, possesse)
                moved == OptionalTransfer(m.comps, 1, possessor, possesse)
            IN  IF m.result # "ok"
                THEN /\ comps' = m.comps
                     /\ log' = <<LogEntry("Error removing component during possession", possessor)>>
                     /\ sent' = <<>>
                     /\ UNCHANGED <<loadouts, agents, controllers>>
                ELSE /\ comps' = moved
                     /\ log' = <<>>
                     /\ sent' = SendSetPlayerEntity(moved, possesse, possesse_uid)
                     /\ loadouts' = [loadouts EXCEPT ![possesse] = PossessLoadout(@)]
                     /\ agents' = [agents EXCEPT ![possesse] = FALSE]
                     /\ controllers' = ResetController(possessor)
    /\ UNCHANGED <<dbVars, world, mountVars, lanternVars>>

\* ------------------------------------------- the character database

\* Rows of the character, body and stats tables.
CharacterRow(id, player_uuid, by) ==
    [id |-> id, player_uuid |-> player_uuid, by |-> by]

BodyRow(character_id, by) == [character_id |-> character_id, by |-> by]

StatsRow(character_id, by) == [character_id |-> character_id, by |-> by]

\* No write transaction is open.
NoTransaction == [writer |-> None, character |-> {}, body |-> {}, stats |-> {}]

\* A call that has not been made yet.
NotCalled ==
    [op |-> "none", uuid |-> "none", humanoid |-> FALSE, character_id |-> None,
     pc |-> "idle", counted |-> None, inserted |-> None, found |-> None,
     deleted |-> {}, result |-> "none"]

\* The character rows the connection of call c reads: the committed ones
\* and, inside its own transaction, the ones it has inserted.
VisibleCharacters(c) ==
    db.character \cup (IF tx.writer = c THEN tx.character ELSE {})

\* character.select(count_star()).filter(player_uuid.eq(uuid)), on a
\* connection of its own.
character_count(uuid) ==
    Cardinality({r \in db.character : r.player_uuid = uuid})

check_character_limit(uuid) ==
    IF character_count(uuid) < MAX_CHARACTERS_PER_PLAYER
    THEN "Ok"
    ELSE "CharacterLimitReached"

\* The id the database gives an inserted character row: above every id of
\* the table.
NewId ==
    LET ids == {r.id : r \in db.character \cup tx.character} \cup {0}
    IN  1 + CHOOSE m \in ids : \A i \in ids : i <= m

\* create_character up to the transaction: check_character_limit(uuid)?.
create_character(c, uuid, humanoid) ==
    /\ calls[c].pc = "idle"
    /\ calls' = [calls EXCEPT ![c] =
          [@ EXCEPT !.op = "create", !.uuid = uuid, !.humanoid = humanoid,
                    !.counted = character_count(uuid),
                    !.pc = IF check_character_limit(uuid) = "Ok"
                           THEN "transaction" ELSE "done",
                    !.result = IF check_character_limit(uuid) = "Ok"
                               THEN "none" ELSE check_character_limit(uuid)]]
    /\ UNCHANGED <<db, tx, ecsVars>>

\* The transaction of a body that is not humanoid: a warning, no statement.
create_not_humanoid(c) ==
    /\ calls[c].pc = "transaction"
    /\ ~calls[c].humanoid
    /\ calls' = [calls EXCEPT ![c] = [@ EXCEPT !.pc = "done", !.result = "Ok"]]
    /\ UNCHANGED <<db, tx, ecsVars>>

\* insert_into(character::table): the first write of the transaction,
\* which makes it the one writer the database admits.
insert_character(c) ==
    /\ calls[c].pc = "transaction"
    /\ calls[c].humanoid
    /\ tx.writer = None
    /\ tx' = [writer |-> c,
              character |-> {CharacterRow(NewId, calls[c].uuid, c)},
              body |-> {}, stats |-> {}]
    /\ calls' = [calls EXCEPT ![c] = [@ EXCEPT !.pc = "query", !.inserted = NewId]]
    /\ UNCHANGED <<db, ecsVars>>

\* inserted_character taking the first row in ascending order of id
inserted_character_ascending(c, uuid) ==
    LET rows == {r \in VisibleCharacters(c) : r.player_uuid = uuid}
    IN  CHOOSE r \in rows : \A q \in rows : r.id <= q.id

\* character.filter(player_uuid.eq(uuid)).order(id.desc()).first()
inserted_character(c, uuid) ==
    LET rows == {r \in VisibleCharacters(c) : r.player_uuid = uuid}
    IN  CHOOSE r \in rows : \A q \in rows : q.id <= r.id

query_inserted_character(c) ==
    /\ calls[c].pc = "query"
    /\ calls' = [calls EXCEPT ![c] =
          [@ EXCEPT !.pc = "insert_body",
                    !.found = inserted_character(c, calls[c].uuid).id]]
    /\ UNCHANGED <<db, tx, ecsVars>>

\* insert_into(body::table)
insert_body(c) ==
    /\ calls[c].pc = "insert_body"
    /\ tx' = [tx EXCEPT !.body = @ \cup {BodyRow(calls[c].found, c)}]
    /\ calls' = [calls EXCEPT ![c] = [@ EXCEPT !.pc = "insert_stats"]]
    /\ UNCHANGED <<db, ecsVars>>

\* insert_into(stats::table)
insert_stats(c) ==
    /\ calls[c].pc = "insert_stats"
    /\ tx' = [tx EXCEPT !.stats = @ \cup {StatsRow(calls[c].found, c)}]
    /\ calls' = [calls EXCEPT ![c] = [@ EXCEPT !.pc = "commit"]]
    /\ UNCHANGED <<db, ecsVars>>

\* The closure returned Ok(()): the transaction commits.
commit(c) ==
    /\ calls[c].pc = "commit"
    /\ db' = [character |-> db.character \cup tx.character,
              body |-> db.body \cup tx.body,
              stats |-> db.stats \cup tx.stats]
    /\ tx' = NoTransaction
    /\ calls' = [calls EXCEPT ![c] = [@ EXCEPT !.pc = "done", !.result = "Ok"]]
    /\ UNCHANGED ecsVars

\* A statement of the transaction returned Err (the database is locked by
\* another writer, or fails): `?` leaves the closure, the transaction rolls
\* back and create_character returns the error.
rollback(c) ==
    /\ \/ calls[c].pc = "transaction" /\ calls[c].humanoid
       \/ calls[c].pc \in {"query", "insert_body", "insert_stats", "commit"}
    /\ tx' = IF tx.writer = c THEN NoTransaction ELSE tx
    /\ calls' = [calls EXCEPT ![c] =
          [@ EXCEPT !.pc = "done", !.result = "DatabaseError"]]
    /\ UNCHANGED <<db, ecsVars>>

\* delete(character.filter(id.eq(character_id))), one statement.
delete_character(c, uuid, character_id) ==
    /\ calls[c].pc = "idle"
    /\ tx.writer = None
    /\ db' = [db EXCEPT !.character = {r \in @ : r.id # character_id}]
    /\ calls' = [calls EXCEPT ![c] =
          [@ EXCEPT !.op = "delete", !.uuid = uuid,
                    !.character_id = character_id,
                    !.deleted = {r \in db.character : r.id = character_id},
                    !.pc = "done", !.result = "Ok"]]
    /\ UNCHANGED <<tx, ecsVars>>

\* --------------------------------------------------------- initial states

\* What one entity is in an initial store: whether it is alive, has a Uid
\* component, is known to the uid allocator, and its components.  holds is
\* the set of the components handle_possess moves that the entity has.
Profile(a, u, mp, p, mt, ms, h, ag, ct, ld) ==
    [alive |-> a, uid |-> u, mapped |-> mp, pos |-> p, mounting |-> mt,
     mountState |-> ms, holds |-> h, agent |-> ag, controller |-> ct,
     loadout |-> ld]

\* A deleted entity: no component; the allocator may still map its uid.
Dead(mp) ==
    Profile(FALSE, FALSE, mp, NoPos, None, NoMountState, {}, FALSE, "none",
            NoLoadout)

\* A live entity of the mount relation; one with a Uid component is known
\* to the allocator and one without is not.
Mountable(u, p, mt, ms) ==
    Profile(TRUE, u, u, p, mt, ms, {}, FALSE, "none", NoLoadout)

\* A live entity of a possession.
Possessable(u, h, ag, ct, ld) ==
    Profile(TRUE, u, u, NoPos, None, NoMountState, h, ag, ct, ld)

\* The store in which entity e is pf[e]; a component of the kinds
\* handle_possess moves names the session created for its entity.
StoreOf(pf) ==
    /\ alive = [e \in Entity |-> pf[e].alive]
    /\ uid = [e \in Entity |-> IF pf[e].uid THEN UidOf(e) ELSE None]
    /\ uidMap = [u \in Uid |->
                    LET e == CHOOSE x \in Entity : UidOf(x) = u
                    IN  IF pf[e].mapped THEN e ELSE None]
    /\ pos = [e \in Entity |-> pf[e].pos]
    /\ mounting = [e \in Entity |-> pf[e].mounting]
    /\ mountState = [e \in Entity |-> pf[e].mountState]
    /\ comps = [k \in Kinds |->
                  [e \in Entity |-> IF k \in pf[e].holds THEN e ELSE None]]
    /\ loadouts = [e \in Entity |-> pf[e].loadout]
    /\ agents = [e \in Entity |-> pf[e].agent]
    /\ controllers = [e \in Entity |-> pf[e].controller]

\* The database in which alice has na characters and bob nb, each with its
\* body and its stats.
DatabaseOf(na, nb) ==
    LET character ==
            {CharacterRow(i, "alice", None) : i \in 1..na}
              \cup {CharacterRow(na + i, "bob", None) : i \in 1..nb}
    IN  [character |-> character,
         body |-> {BodyRow(r.id, None) : r \in character},
         stats |-> {StatsRow(r.id, None) : r \in character}]

\* An empty database on which no call is made.
NoDatabase ==
    /\ db = DatabaseOf(0, 0)
    /\ tx = NoTransaction
    /\ calls = [c \in Call |-> NotCalled]

NoHistory ==
    /\ lightOps = <<>>
    /\ log = <<>>
    /\ sent = <<>>
    /\ last = NoCall
    /\ pre = store
    /\ sessions = {comps["Client"][e] : e \in Entity} \ {None}

\* The asset common.items.debug.possess: a tool with one ability.
PossessTool == [is_tool |-> TRUE, abilities |-> <<"possess">>]

\* The two entities a call names take any profile of pair, every other
\* entity one of others.
InitPair(pair, others) ==
    /\ \E p1 \in pair, p2 \in pair, rest \in [Entity \ {1, 2} -> others] :
          StoreOf([e \in Entity |->
                      IF e = 1 THEN p1 ELSE IF e = 2 THEN p2 ELSE rest[e]])
    /\ lights = [e \in Entity |-> NoLight]
    /\ possessItem = PossessTool
    /\ NoHistory
    /\ NoDatabase

\* Every entity takes any profile of profiles.
InitAll(profiles) ==
    /\ \E pf \in [Entity -> profiles] : StoreOf(pf)
    /\ lights = [e \in Entity |-> NoLight]
    /\ possessItem = PossessTool
    /\ NoHistory
    /\ NoDatabase

\* Entities that ride nothing: unridden mounts at two points out of range
\* of each other, an entity with no MountState, one whose MountState still
\* names the first entity, one without a Uid, and a deleted one.
MountProfilesClean ==
    {Mountable(TRUE, PosOrigin, None, Unmounted),
     Mountable(TRUE, PosBoundary, None, Unmounted),
     Mountable(TRUE, PosOrigin, None, NoMountState),
     Mountable(TRUE, PosOrigin, None, MountedBy(UidOf(1))),
     Mountable(FALSE, PosOrigin, None, Unmounted),
     Dead(TRUE)}

\* Any entity of the mount relation: dead, or alive with or without a Uid
\* and any Pos, Mounting and MountState (uids of the first two entities).
MountProfilesAny ==
    {Dead(mp) : mp \in BOOLEAN}
      \cup {Mountable(u, p, mt, ms) :
              u \in BOOLEAN,
              p \in {NoPos} \cup Points,
              mt \in {None, UidOf(1), UidOf(2)},
              ms \in {NoMountState, Unmounted, MountedBy(UidOf(1)),
                      MountedBy(UidOf(2))}}

\* An entity beside the two a call names: deleted, or an unridden mount.
MountBystanders ==
    {Dead(FALSE), Mountable(TRUE, PosBeyond, None, Unmounted)}

InitMount == InitAll(MountProfilesClean)

InitMountStore == InitPair(MountProfilesAny, MountBystanders)

\* Two items an entity may carry in its hands.
Sword == ItemConfig("sword", "slash", "stab", NoAbility, "block", NoAbility)
Bow == ItemConfig("bow", "shoot", NoAbility, NoAbility, NoAbility, "roll")

\* What an entity may hold of the components handle_possess moves: nothing
\* (an NPC), everything (a connected player), a player without the optional
\* components or without one of its streams, and a stray general stream.
HoldingsAny ==
    {{}, Kinds, Kinds \ Optionals, {"GeneralStream"}}
        \cup {Kinds \ {k} : k \in Streams}

\* Any entity of a possession: deleted, alive and unknown to the allocator,
\* or alive with any holdings, Controller and Loadout; one with a Client has
\* no Agent.
PossessProfilesAny ==
    {Dead(mp) : mp \in BOOLEAN}
      \cup {Possessable(FALSE, {}, TRUE, "none", NoLoadout)}
      \cup {Possessable(TRUE, h, ag, ct, ld) :
              h \in {x \in HoldingsAny : "Client" \notin x},
              ag \in BOOLEAN,
              ct \in {"none", "neutral", "input"},
              ld \in {NoLoadout, Loadout(Sword, Bow, NoItem)}}
      \cup {Possessable(TRUE, h, FALSE, ct, ld) :
              h \in {x \in HoldingsAny : "Client" \in x},
              ct \in {"none", "neutral", "input"},
              ld \in {NoLoadout, Loadout(Sword, Bow, NoItem)}}

\* An entity beside the two a call names: deleted, or an NPC.
PossessBystanders ==
    {Dead(FALSE), Possessable(TRUE, {}, TRUE, "none", NoLoadout)}

\* Sessions whose streams are all there, and entities with none of them.
PossessProfilesConsistent ==
    {Dead(TRUE),
     Possessable(TRUE, {}, TRUE, "none", NoLoadout),
     Possessable(TRUE, Kinds, FALSE, "input", NoLoadout)}

\* Entities of a sequence of possessions: NPCs, a connected player, the
\* players that lack their first or their last stream, and a deleted entity.
PossessProfilesSome ==
    {Dead(TRUE),
     Possessable(TRUE, {}, TRUE, "none", NoLoadout),
     Possessable(TRUE, {}, FALSE, "none", NoLoadout),
     Possessable(TRUE, Kinds, FALSE, "input", Loadout(Sword, Bow, NoItem))}
      \cup {Possessable(TRUE, Kinds \ {k}, FALSE, "input", NoLoadout) :
              k \in {"GeneralStream", "InGameStream"}}

InitPossessStore == InitPair(PossessProfilesAny, PossessBystanders)

InitPossess == InitPair(PossessProfilesSome, PossessBystanders)

InitPossessConsistent == InitAll(PossessProfilesConsistent)

\* What tool.get_abilities() may return for the asset: none to four
\* abilities, in this order.
PossessAbilities == <<"first", "second", "third", "fourth">>

PossessTools ==
    {[is_tool |-> TRUE, abilities |-> SubSeq(PossessAbilities, 1, n)] :
        n \in 0..Len(PossessAbilities)}

\* A connected player, and NPCs with no Loadout, with both hands full and
\* with an empty active slot.
PossessProfilesLoadout ==
    {Possessable(TRUE, Kinds, FALSE, "input", Loadout(Sword, Bow, NoItem)),
     Possessable(TRUE, {}, TRUE, "none", NoLoadout),
     Possessable(TRUE, {}, TRUE, "none", Loadout(Sword, Bow, NoItem)),
     Possessable(TRUE, {}, TRUE, "none", Loadout(NoItem, Bow, NoItem))}

InitPossessLoadout ==
    /\ \E p1 \in PossessProfilesLoadout, p2 \in PossessProfilesLoadout,
          rest \in [Entity \ {1, 2} -> PossessBystanders] :
          StoreOf([e \in Entity |->
                      IF e = 1 THEN p1 ELSE IF e = 2 THEN p2 ELSE rest[e]])
    /\ lights = [e \in Entity |-> NoLight]
    /\ possessItem \in PossessTools
    /\ NoHistory
    /\ NoDatabase

\* Connected players with any of the optional components, and NPCs with
\* none of them, with a Waypoint, and with all of them.
PossessProfilesOptional ==
    {Possessable(TRUE, (Kinds \ Optionals) \cup h, FALSE, "input", NoLoadout) :
        h \in SUBSET Optionals}
      \cup {Possessable(TRUE, h, TRUE, "none", NoLoadout) :
                h \in {{}, {"Waypoint"}, Optionals}}

InitPossessOptional == InitPair(PossessProfilesOptional, PossessBystanders)

\* What an entity may have in its lantern slot: nothing, an item of
\* another kind, a lantern, and a lantern of strength zero.
LanternSlots ==
    {NoItem, Item("Consumable", "none", 0), Item("Lantern", "red", 5),
     Item("Lantern", "blue", 0)}

\* A deleted entity, one with no Loadout, and one with a Loadout for each
\* content of the lantern slot.
LanternProfiles ==
    {Dead(FALSE), Possessable(TRUE, {}, FALSE, "none", NoLoadout)}
      \cup {Possessable(TRUE, {}, FALSE, "none", Loadout(Sword, Bow, l)) :
                l \in LanternSlots}

\* No LightEmitter, one of strength zero, and a lit one.
Lights ==
    {NoLight, LightEmitter("green", 0, "0.35", TRUE),
     LightEmitter("green", 4, "0.35", TRUE)}

\* An entity beside the two the calls name: a lit lantern bearer.
LanternBystander ==
    Possessable(TRUE, {}, FALSE, "none",
                Loadout(Sword, Bow, Item("Lantern", "red", 5)))

InitLantern ==
    /\ \E p1 \in LanternProfiles, p2 \in LanternProfiles,
          l1 \in Lights, l2 \in Lights :
          LET pf == [e \in Entity |->
                       IF e = 1 THEN p1 ELSE IF e = 2 THEN p2
                       ELSE LanternBystander]
          IN  /\ StoreOf(pf)
              /\ lights = [e \in Entity |->
                              IF ~pf[e].alive THEN NoLight
                              ELSE IF e = 1 THEN l1 ELSE IF e = 2 THEN l2
                              ELSE LightEmitter("red", 5, "0.35", TRUE)]
    /\ possessItem = PossessTool
    /\ NoHistory
    /\ NoDatabase

NextLantern ==
    \E entity \in Entity, enable \in BOOLEAN : handle_lantern(entity, enable)

\* Any sequence of handle_lantern calls.
SpecLantern == InitLantern /\ [][NextLantern]_vars

\* A world of deleted entities, and a database in which each player has
\* up to MAX_CHARACTERS_PER_PLAYER characters.
InitCharacter ==
    /\ StoreOf([e \in Entity |-> Dead(FALSE)])
    /\ lights = [e \in Entity |-> NoLight]
    /\ possessItem = PossessTool
    /\ NoHistory
    /\ \E na \in 0..MAX_CHARACTERS_PER_PLAYER,
          nb \in 0..MAX_CHARACTERS_PER_PLAYER : db = DatabaseOf(na, nb)
    /\ tx = NoTransaction
    /\ calls = [c \in Call |-> NotCalled]

\* The steps of concurrent create_character calls.
NextCreate ==
    \E c \in Call :
        \/ \E uuid \in Players, humanoid \in BOOLEAN :
              create_character(c, uuid, humanoid)
        \/ create_not_humanoid(c)
        \/ insert_character(c)
        \/ query_inserted_character(c)
        \/ insert_body(c)
        \/ insert_stats(c)
        \/ commit(c)
        \/ rollback(c)

\* The steps of concurrent create_character and delete_character calls.
NextCharacter ==
    \/ NextCreate
    \/ \E c \in Call, uuid \in Players :
          \E character_id \in {r.id : r \in db.character} \cup {0} :
              delete_character(c, uuid, character_id)

SpecCreate == InitCharacter /\ [][NextCreate]_vars

SpecCharacter == InitCharacter /\ [][NextCharacter]_vars

NextPossess ==
    \E possessor_uid \in Uid, possesse_uid \in Uid :
        handle_possess(possessor_uid, possesse_uid)

\* No call has been made yet.
Idle == last = NoCall

\* One handle_possess call from any store.
NextPossessOnce ==
    \E possessor_uid \in Uid, possesse_uid \in Uid :
        Idle /\ handle_possess(possessor_uid, possesse_uid)

SpecPossessStore == InitPossessStore /\ [][NextPossessOnce]_vars

\* Any sequence of handle_possess calls.
SpecPossess == InitPossess /\ [][NextPossess]_vars

\* One handle_possess call with the possession tool of any number of
\* abilities.
SpecPossessLoadout == InitPossessLoadout /\ [][NextPossessOnce]_vars

\* One handle_possess call by a player with any of the optional components.
SpecPossessOptional == InitPossessOptional /\ [][NextPossessOnce]_vars

\* handle_possess from the stores in which every session has its streams.
SpecPossessConsistent == InitPossessConsistent /\ [][NextPossess]_vars

NextMount ==
    \/ \E mounter \in Entity, mountee \in Entity : handle_mount(mounter, mountee)
    \/ \E mounter \in Entity : handle_unmount(mounter)

\* Any sequence of handle_mount and handle_unmount calls.
SpecMount == InitMount /\ [][NextMount]_vars

\* One handle_mount or handle_unmount call from any store.
NextMountOnce ==
    \/ \E mounter \in Entity, mountee \in Entity :
          Idle /\ handle_mount(mounter, mountee)
    \/ \E mounter \in Entity : Idle /\ handle_unmount(mounter)

SpecMountStore == InitMountStore /\ [][NextMountOnce]_vars

\* ------------------------------------------------------------------ claims

\* The components of the store that record the mount relation, replaced.
WithMount(s, m, ms) == [s EXCEPT !.mounting = m, !.mountState = ms]

\* Conditions (1)-(4) of a mount, on the store before the call.
MountConditions(rider, mountee) ==
    /\ pre.mounting[rider] = None
    /\ pre.mountState[mountee] = Unmounted
    /\ pre.pos[rider] # NoPos
    /\ pre.pos[mountee] # NoPos
    /\ distance_squared(pre.pos[rider], pre.pos[mountee])
          < MAX_MOUNT_RANGE * MAX_MOUNT_RANGE
    /\ pre.uid[rider] # None
    /\ pre.uid[mountee] # None

\* C1: handle_mount(rider, mountee) sets rider.Mounting to the mountee's uid
\* and mountee.MountState to MountedBy(rider's uid), changing nothing else,
\* if and only if the rider has no Mounting, the mountee is exactly
\* Unmounted, both have a Pos at a squared distance strictly below
\* MAX_MOUNT_RANGE squared, and both have a uid; in every other case the
\* store is left as it was.
C1_MountIff ==
    last.op = "mount" =>
        IF MountConditions(last.a, last.b)
        THEN /\ store = WithMount(pre,
                    [pre.mounting EXCEPT ![last.a] = pre.uid[last.b]],
                    [pre.mountState EXCEPT ![last.b] = MountedBy(pre.uid[last.a])])
             /\ store # pre
        ELSE store = pre

C1_Witness ==
    /\ last.op = "mount"
    /\ last.a # last.b
    /\ MountConditions(last.a, last.b)
    /\ mounting[last.a] = uid[last.b]
    /\ mountState[last.b] = MountedBy(uid[last.a])

\* C2: whenever an entity r has Mounting(m), r has a uid and the entity
\* whose uid is m has MountState MountedBy(uid of r); and a call other than
\* unmount(r) leaves r's Mounting and its mount's MountState as they were.
C2_Bidirectional ==
    \A r \in Entity :
        /\ mounting[r] # None =>
              /\ uid[r] # None
              /\ \E m \in Entity :
                    uid[m] = mounting[r] /\ mountState[m] = MountedBy(uid[r])
        /\ (/\ last.op \in {"mount", "unmount"}
            /\ ~(last.op = "unmount" /\ last.a = r)
            /\ pre.mounting[r] # None) =>
              /\ mounting[r] = pre.mounting[r]
              /\ \A m \in Entity :
                    uid[m] = mounting[r] => mountState[m] = pre.mountState[m]

C2_Witness ==
    /\ last.op = "mount"
    /\ \E r \in Entity, m \in Entity :
          /\ r # m
          /\ last.a # r
          /\ pre.mounting[r] = uid[m]
          /\ mounting[r] = uid[m]
          /\ mountState[m] = MountedBy(uid[r])
          /\ mounting[last.a] # None
          /\ pre.mounting[last.a] = None

\* What the Mounting of the unmounted rider resolved to before the call.
UnmountTarget ==
    IF pre.mounting[last.a] # None /\ pre.mounting[last.a] \in Uid
    THEN pre.uidMap[pre.mounting[last.a]]
    ELSE None

\* C3: handle_unmount(rider) leaves the rider without Mounting; if the rider
\* had Mounting(m) and m resolves to a live entity with a MountState, that
\* MountState is Unmounted afterwards; if m does not resolve, only the
\* Mounting is removed; nothing else changes, and with no Mounting before
\* the call the store is left as it was.
C3_Unmount ==
    last.op = "unmount" =>
        /\ mounting[last.a] = None
        /\ store = WithMount(pre,
              [pre.mounting EXCEPT ![last.a] = None],
              IF /\ UnmountTarget # None
                 /\ pre.alive[UnmountTarget]
                 /\ pre.mountState[UnmountTarget] # NoMountState
              THEN [pre.mountState EXCEPT ![UnmountTarget] = Unmounted]
              ELSE pre.mountState)
        /\ pre.mounting[last.a] = None => store = pre

\* The rider was attached to a mount that no longer resolves.
C3_Witness ==
    /\ last.op = "unmount"
    /\ pre.mounting[last.a] # None
    /\ UnmountTarget = None
    /\ mounting[last.a] = None
    /\ mountState = pre.mountState

\* The entities the uids of the last handle_possess call resolved to.
Possessor == IF last.a \in Uid THEN pre.uidMap[last.a] ELSE None

Possesse == IF last.b \in Uid THEN pre.uidMap[last.b] ELSE None

\* Both uids resolve to live entities and the possesse has no Client.
PossessPreconditions ==
    /\ Possessor # None
    /\ Possesse # None
    /\ pre.alive[Possessor]
    /\ pre.alive[Possesse]
    /\ pre.comps["Client"][Possesse] = None

\* The session handle and the five stream components.
MandatoryKinds == {"Client"} \cup Streams

HoldsAllMandatory == \A k \in MandatoryKinds : pre.comps[k][Possessor] # None

PossessSucceeds == PossessPreconditions /\ HoldsAllMandatory

\* C4: a handle_possess call one of whose preconditions fails (a uid that
\* does not resolve, a resolved entity that is dead, a possesse that has a
\* Client) leaves every component of every entity as it was.
C4_AbortUnchanged ==
    (last.op = "possess" /\ ~PossessPreconditions) => store = pre

\* A player tries to possess another player.
C4_Witness ==
    /\ last.op = "possess"
    /\ Possessor # None
    /\ Possesse # None
    /\ Possessor # Possesse
    /\ pre.alive[Possessor]
    /\ pre.alive[Possesse]
    /\ HoldsAllMandatory
    /\ pre.comps["Client"][Possesse] # None
    /\ store = pre

\* C5: every handle_possess call that does not complete leaves an error
\* entry in the log, and the entry names one of the call's stable ids.
C5_FailureLogged ==
    (last.op = "possess" /\ ~PossessSucceeds) =>
        /\ Len(log) > 0
        /\ \E i \in DOMAIN log : log[i].entity \in {last.a, last.b}

\* C6: after a handle_possess call that succeeds the possessor has no
\* Client and no stream component and its Controller, if it has one, is
\* reset, and the possesse has exactly the Client and stream components
\* the possessor had.
C6_Success ==
    (last.op = "possess" /\ PossessSucceeds) =>
        /\ \A k \in MandatoryKinds :
              /\ comps[k][Possessor] = None
              /\ comps[k][Possesse] = pre.comps[k][Possessor]
        /\ controllers[Possessor] # "input"
        /\ pre.controllers[Possessor] # "none" => controllers[Possessor] = "neutral"

C6_Witness ==
    /\ last.op = "possess"
    /\ PossessSucceeds
    /\ pre.controllers[Possessor] = "input"
    /\ controllers[Possessor] = "neutral"
    /\ comps["Client"][Possesse] = pre.comps["Client"][Possessor]
    /\ comps["Client"][Possessor] = None

\* C7: a handle_possess call whose preconditions hold and whose possessor
\* lacks one of the mandatory components ends with every mandatory
\* component where it was before the call.
C7_AllOrNothing ==
    (last.op = "possess" /\ PossessPreconditions /\ ~HoldsAllMandatory) =>
        \A k \in MandatoryKinds : comps[k] = pre.comps[k]

\* C8: every session handle given to a client is the Client of exactly one
\* entity, and no entity has a Client that is none of them.
C8_SessionsMoved ==
    \A s \in Entity :
        Cardinality({e \in Entity : comps["Client"][e] = s})
            = IF s \in sessions THEN 1 ELSE 0

\* A session is now with an entity other than the one it was created for.
C8_Witness ==
    /\ last.op = "possess"
    /\ \E e \in Entity : comps["Client"][e] \notin {None, e}

\* C9: starting with every session's streams on the entity that has its
\* Client and on no other, an entity has a stream component if and only if
\* it has the Client of the session the stream belongs to.
C9_StreamsFollow ==
    \A e \in Entity : \A k \in Streams : comps[k][e] = comps["Client"][e]

C9_Witness ==
    /\ last.op = "possess"
    /\ \E e \in Entity :
          /\ comps["Client"][e] \notin {None, e}
          /\ \A k \in Streams : comps[k][e] = comps["Client"][e]

\* C10: starting with no entity that has both a Client and an Agent, no
\* entity has both after any sequence of handle_possess calls.
C10_NoClientAgent ==
    \A e \in Entity : ~(comps["Client"][e] # None /\ agents[e])

\* C11: a handle_possess call that succeeds sends exactly one message, a
\* SetPlayerEntity carrying the possesse's uid, on the general stream that
\* was the possessor's before the call and is the possesse's after it; any
\* other handle_possess call sends nothing.
C11_Notification ==
    last.op = "possess" =>
        IF PossessSucceeds
        THEN /\ sent = <<[stream |-> pre.comps["GeneralStream"][Possessor],
                          entity |-> Possesse, msg |-> "SetPlayerEntity",
                          uid |-> uid[Possesse]]>>
             /\ sent[1].stream = comps["GeneralStream"][Possesse]
             /\ sent[1].uid = last.b
        ELSE sent = <<>>

\* The possesse had a general stream of its own, which the move replaced.
C11_Witness ==
    /\ last.op = "possess"
    /\ PossessSucceeds
    /\ Len(sent) = 1
    /\ pre.comps["GeneralStream"][Possesse] # None
    /\ sent[1].stream # pre.comps["GeneralStream"][Possesse]
    /\ sent[1].stream = comps["GeneralStream"][Possesse]

\* The i-th ability of the possession tool, or the empty slot.
ToolAbility(i) ==
    IF Len(possessItem.abilities) >= i THEN possessItem.abilities[i] ELSE NoAbility

\* C12: after a handle_possess call that succeeds the possesse has a
\* Loadout (the default one if it had none before); its active item is the
\* possession tool with the tool's first three abilities, in order, in
\* ability slots 1 to 3 (an empty slot where the tool has no such ability)
\* and with empty block and dodge slots; its second item is the item that
\* was its active item before the call.
C12_Loadout ==
    (last.op = "possess" /\ PossessSucceeds) =>
        /\ loadouts[Possesse].present
        /\ loadouts[Possesse].active_item =
              [item |-> "common.items.debug.possess",
               ability1 |-> ToolAbility(1), ability2 |-> ToolAbility(2),
               ability3 |-> ToolAbility(3),
               block_ability |-> NoAbility, dodge_ability |-> NoAbility]
        /\ loadouts[Possesse].second_item = pre.loadouts[Possesse].active_item
        /\ ~pre.loadouts[Possesse].present =>
              /\ loadouts[Possesse].second_item = NoItem
              /\ loadouts[Possesse].lantern = NoItem

\* A tool of two abilities in the hands of an entity that held a sword.
C12_Witness ==
    /\ last.op = "possess"
    /\ PossessSucceeds
    /\ Len(possessItem.abilities) = 2
    /\ pre.loadouts[Possesse].active_item = Sword
    /\ loadouts[Possesse].second_item = Sword
    /\ loadouts[Possesse].active_item.ability2 = "second"
    /\ loadouts[Possesse].active_item.ability3 = NoAbility

\* C13: in a handle_possess call whose mandatory transfer succeeded, each
\* of Player, RegionSubscription, Admin and Waypoint that the possessor had
\* is gone from the possessor and is the possesse's afterwards, whichever of
\* the others the possessor lacked; and the steps after the transfer (the
\* notification, the loadout, the Agent removal, the Controller reset) are
\* carried out whichever of them it lacked.
C13_OptionalPerComponent ==
    (last.op = "possess" /\ PossessSucceeds) =>
        /\ \A k \in Optionals :
              pre.comps[k][Possessor] # None =>
                  /\ comps[k][Possessor] = None
                  /\ comps[k][Possesse] = pre.comps[k][Possessor]
        /\ Len(sent) = 1
        /\ loadouts[Possesse].present
        /\ loadouts[Possesse].active_item.item = "common.items.debug.possess"
        /\ ~agents[Possesse]
        /\ controllers[Possessor] # "input"

\* The possessor had a Waypoint and an Admin flag, and no Player marker.
C13_Witness ==
    /\ last.op = "possess"
    /\ PossessSucceeds
    /\ pre.comps["Player"][Possessor] = None
    /\ pre.comps["RegionSubscription"][Possessor] = None
    /\ pre.comps["Admin"][Possessor] # None
    /\ comps["Admin"][Possesse] = pre.comps["Admin"][Possessor]
    /\ comps["Waypoint"][Possesse] = pre.comps["Waypoint"][Possessor]
    /\ pre.comps["Waypoint"][Possesse] \notin {None, comps["Waypoint"][Possesse]}
    /\ comps["Waypoint"][Possessor] = None
    /\ Len(sent) = 1

\* C14: a handle_lantern(e, enable) call that follows the same call, with
\* nothing in between, inserts and removes no LightEmitter and leaves the
\* store as it was.
C14_Idempotent ==
    (last.op = "lantern" /\ last.again) => (lightOps = <<>> /\ store = pre)

\* The entity of the last handle_lantern call, before the call: whether it
\* was lit, and whether it had a lantern equipped.
WasLit == pre.lights[last.a].present /\ pre.lights[last.a].strength > 0

HadLantern ==
    /\ pre.loadouts[last.a].present
    /\ pre.loadouts[last.a].lantern # NoItem
    /\ pre.loadouts[last.a].lantern.kind = "Lantern"

\* C15: handle_lantern(e, TRUE) on an entity that is not lit inserts a
\* LightEmitter with the color and strength of the lantern in the lantern
\* slot of its Loadout if there is one, and changes nothing if there is
\* none; handle_lantern(e, FALSE) on a lit entity removes its LightEmitter;
\* no call changes a Loadout or a component of another entity.
C15_Transitions ==
    last.op = "lantern" =>
        /\ (last.b /\ ~WasLit /\ HadLantern) =>
              /\ lightOps = <<[op |-> "insert", entity |-> last.a]>>
              /\ lights[last.a].present
              /\ lights[last.a].col = pre.loadouts[last.a].lantern.col
              /\ lights[last.a].strength = pre.loadouts[last.a].lantern.strength
        /\ (last.b /\ ~WasLit /\ ~HadLantern) =>
              (lightOps = <<>> /\ store = pre)
        /\ (~last.b /\ WasLit) =>
              /\ lightOps = <<[op |-> "remove", entity |-> last.a]>>
              /\ lights[last.a] = NoLight
        /\ store = [pre EXCEPT !.lights =
                        [pre.lights EXCEPT ![last.a] = lights[last.a]]]

\* A LightEmitter of strength zero gives way to the lantern's.
C15_Witness ==
    /\ last.op = "lantern"
    /\ last.b
    /\ pre.lights[last.a].present
    /\ ~WasLit
    /\ HadLantern
    /\ lights[last.a].col = "red"
    /\ lights[last.a] # pre.lights[last.a]

\* C16: no two distinct entities have a Mounting that names the same mount;
\* a handle_mount call on a mount whose MountState is MountedBy changes
\* nothing; and a MountState that is MountedBy(r) stays so under every call
\* other than the unmount of r.
C16_Exclusive ==
    /\ \A r1 \in Entity, r2 \in Entity :
          (r1 # r2 /\ mounting[r1] # None) => mounting[r1] # mounting[r2]
    /\ (last.op = "mount" /\ pre.mountState[last.b].tag = "MountedBy") =>
          store = pre
    /\ \A m \in Entity :
          (/\ last.op \in {"mount", "unmount"}
           /\ pre.mountState[m].tag = "MountedBy"
           /\ ~(last.op = "unmount" /\ pre.uid[last.a] = pre.mountState[m].by)) =>
              mountState[m] = pre.mountState[m]

\* A second rider, in range and riding nothing, tried a mount that another
\* entity is riding.
C16_Witness ==
    /\ last.op = "mount"
    /\ pre.mounting[last.a] = None
    /\ pre.uid[last.a] # None
    /\ pre.pos[last.a] # NoPos
    /\ pre.pos[last.b] # NoPos
    /\ distance_squared(pre.pos[last.a], pre.pos[last.b])
          < MAX_MOUNT_RANGE * MAX_MOUNT_RANGE
    /\ \E r \in Entity \ {last.a, last.b} :
          /\ pre.mounting[r] = pre.uid[last.b]
          /\ pre.mountState[last.b] = MountedBy(pre.uid[r])
          /\ mounting[r] = pre.mounting[r]
    /\ mounting[last.a] = None

\* C17: no entity has a Mounting that names itself, and no two entities
\* have a Mounting that names each other.
C17_Acyclic ==
    \A a \in Entity, b \in Entity :
        (mounting[a] # None /\ mounting[a] = uid[b]) => mounting[b] # uid[a]

\* The stored character rows of a player.
StoredCharacters(u) == {r \in db.character : r.player_uuid = u}

\* C18: under every interleaving of create_character and delete_character
\* calls no player has more than MAX_CHARACTERS_PER_PLAYER stored character
\* rows, and a create_character call made when the player has that many
\* returns CharacterLimitReached and inserts no row.
C18_LimitHolds ==
    /\ \A u \in Players :
          Cardinality(StoredCharacters(u)) <= MAX_CHARACTERS_PER_PLAYER
    /\ \A c \in Call :
          (calls[c].op = "create"
             /\ calls[c].counted >= MAX_CHARACTERS_PER_PLAYER) =>
              /\ calls[c].result = "CharacterLimitReached"
              /\ calls[c].inserted = None

\* The stored rows written by call c.
Written(table, c) == {r \in table : r.by = c}

\* C19: of the character, body and stats row of a create_character call
\* for a humanoid body either all three are stored or none is; the stored
\* body and stats rows of a call carry the id of the character row of that
\* call; and every stored character row has exactly one body row and
\* exactly one stats row.
C19_AtomicLinked ==
    /\ \A c \in Call :
          \/ /\ Written(db.character, c) = {}
             /\ Written(db.body, c) = {}
             /\ Written(db.stats, c) = {}
          \/ /\ calls[c].humanoid
             /\ calls[c].result = "Ok"
             /\ Written(db.character, c)
                   = {[id |-> calls[c].inserted,
                       player_uuid |-> calls[c].uuid, by |-> c]}
             /\ Written(db.body, c)
                   = {[character_id |-> calls[c].inserted, by |-> c]}
             /\ Written(db.stats, c)
                   = {[character_id |-> calls[c].inserted, by |-> c]}
    /\ \A r \in db.character :
          /\ Cardinality({b \in db.body : b.character_id = r.id}) = 1
          /\ Cardinality({t \in db.stats : t.character_id = r.id}) = 1

\* Two calls for the same player ran side by side: one passed the limit
\* check while the other was inside its transaction; one committed its
\* three rows, the other rolled back after its insert.
C19_Witness ==
    \E c1 \in Call, c2 \in Call :
        /\ c1 # c2
        /\ calls[c1].uuid = calls[c2].uuid
        /\ calls[c1].result = "Ok"
        /\ calls[c1].humanoid
        /\ Written(db.body, c1) # {}
        /\ StoredCharacters(calls[c1].uuid) # Written(db.character, c1)
        /\ calls[c2].op = "create"
        /\ calls[c2].result = "DatabaseError"
        /\ calls[c2].inserted # None
        /\ calls[c2].counted = calls[c1].counted

\* C20: delete_character(uuid, character_id) deletes no character row of
\* another player than uuid, and no row of another id than character_id.
C20_DeleteOwn ==
    \A c \in Call :
        calls[c].op = "delete" =>
            \A r \in calls[c].deleted :
                r.player_uuid = calls[c].uuid /\ r.id = calls[c].character_id

====
